---------------------------- MODULE Spec2Model ----------------------------
(***************************************************************************)
(* libinspector: the decoders and encoders of src/introspection.           *)
(*                                                                         *)
(* Text is a sequence of one-character strings.  An unsigned integer of    *)
(* the program (u32, u64) is kept at its full width as a big-endian        *)
(* sequence of 16-bit limbs (2 limbs for u32, 4 for u64), so that the      *)
(* overflow checks of the integer parser are the real ones.  The signed    *)
(* types i8 and i16 are plain integers.                                    *)
(*                                                                         *)
(* Every operation returns a record [status, value, error] with status     *)
(* "Ok", "Err" (a Result::Err returned to the caller) or "Panic" (the      *)
(* thread unwinds: an index or a slice out of range).                      *)
(***************************************************************************)
EXTENDS Integers, Sequences, FiniteSets, TLC

\* op:     the operation the caller last invoked ("idle" before and between calls)
\* input:  its argument
\* made:   for a line assembled from tokens, the tokens it was assembled from
\* output: what the operation returned
VARIABLES op, input, made, output

vars == <<op, input, made, output>>

---------------------------------------------------------------------------
(* Results *)

NoValue == <<>>
NoError == [type |-> "None", what |-> "", token |-> <<>>]

Ok(v)  == [status |-> "Ok",  value |-> v,       error |-> NoError]
Err(e) == [status |-> "Err", value |-> NoValue, error |-> e]
Panic(what) ==
    [status |-> "Panic", value |-> NoValue,
     error |-> [type |-> "Panic", what |-> what, token |-> <<>>]]

\* std::num::ParseIntError with its IntErrorKind
ParseIntError(kind) == [type |-> "ParseIntError", what |-> kind, token |-> <<>>]
\* ProcessParseError::ParseError / SegmentParseError::ParseError (format!("{what}: {token}"))
ParseError(what, token) == [type |-> "ParseError", what |-> what, token |-> token]
\* std::io::Error
IoError(what) == [type |-> "io::Error", what |-> what, token |-> <<>>]

---------------------------------------------------------------------------
(* Text *)

WhiteSpace == {" ", "\t"}

\* the least index i of s with s[i] in set (in == TRUE) or not in set (in == FALSE);
\* Len(s) + 1 when there is none
Find(s, set, in) ==
    LET I == {i \in 1..Len(s) : (s[i] \in set) = in}
    IN  IF I = {} THEN Len(s) + 1 ELSE CHOOSE i \in I : \A j \in I : i <= j

SkipWhile(s, set) == SubSeq(s, Find(s, set, FALSE), Len(s))
TakeUntil(s, set) == SubSeq(s, 1, Find(s, set, TRUE) - 1)
DropUntil(s, set) == SubSeq(s, Find(s, set, TRUE), Len(s))

\* str::split_whitespace: the non-empty runs of non-whitespace, in order
RECURSIVE split_whitespace(_)
split_whitespace(s) ==
    LET t == SkipWhile(s, WhiteSpace)
    IN  IF t = <<>> THEN <<>>
        ELSE <<TakeUntil(t, WhiteSpace)>> \o split_whitespace(DropUntil(t, WhiteSpace))

\* str::split(c): the pieces between occurrences of c; always at least one piece
RECURSIVE split(_, _)
split(s, c) ==
    LET rest == DropUntil(s, {c})
    IN  IF rest = <<>> THEN <<s>>
        ELSE <<TakeUntil(s, {c})>> \o split(Tail(rest), c)

starts_with(s, p) == Len(s) >= Len(p) /\ SubSeq(s, 1, Len(p)) = p
ends_with(s, p)   == Len(s) >= Len(p) /\ SubSeq(s, Len(s) - Len(p) + 1, Len(s)) = p

---------------------------------------------------------------------------
(* Integers *)

LimbBase == 2^16

DecDigits == <<"0", "1", "2", "3", "4", "5", "6", "7", "8", "9">>
HexLower  == <<"a", "b", "c", "d", "e", "f">>
HexUpper  == <<"A", "B", "C", "D", "E", "F">>

\* char::to_digit(radix): the digit's value, or -1 for None
to_digit(c, radix) ==
    IF \E i \in 1..10 : DecDigits[i] = c
    THEN (CHOOSE i \in 1..10 : DecDigits[i] = c) - 1
    ELSE IF radix = 16 /\ \E i \in 1..6 : HexLower[i] = c
    THEN (CHOOSE i \in 1..6 : HexLower[i] = c) + 9
    ELSE IF radix = 16 /\ \E i \in 1..6 : HexUpper[i] = c
    THEN (CHOOSE i \in 1..6 : HexUpper[i] = c) + 9
    ELSE -1

\* char::from_digit, lower case
from_digit(d) == IF d < 10 THEN DecDigits[d + 1] ELSE HexLower[d - 9]

Zero(nlimbs) == [i \in 1..nlimbs |-> 0]

\* v * radix + carry on limbs: <<carry out>> \o limbs
RECURSIVE MulAdd(_, _, _)
MulAdd(v, radix, carry) ==
    IF v = <<>> THEN <<carry>>
    ELSE LET n == Len(v)
             t == v[n] * radix + carry
         IN  MulAdd(SubSeq(v, 1, n - 1), radix, t \div LimbBase) \o <<t % LimbBase>>

\* v divided by d on limbs: quotient limbs \o <<remainder>>
RECURSIVE DivRem(_, _, _)
DivRem(v, d, rem) ==
    IF v = <<>> THEN <<rem>>
    ELSE LET t == rem * LimbBase + Head(v)
         IN  <<t \div d>> \o DivRem(Tail(v), d, t % d)

RECURSIVE AccUnsigned(_, _, _)
AccUnsigned(digits, radix, acc) ==
    IF digits = <<>> THEN Ok(acc)
    ELSE LET x == to_digit(Head(digits), radix)
         IN  IF x = -1 THEN Err(ParseIntError("InvalidDigit"))
             ELSE LET m == MulAdd(acc, radix, x)
                  IN  IF Head(m) # 0 THEN Err(ParseIntError("PosOverflow"))
                      ELSE AccUnsigned(Tail(digits), radix, Tail(m))

\* u32/u64::from_str_radix: an optional '+', then digits; checked arithmetic
from_str_radix_unsigned(src, radix, nlimbs) ==
    IF src = <<>> THEN Err(ParseIntError("Empty"))
    ELSE IF src = <<"+">> \/ src = <<"-">> THEN Err(ParseIntError("InvalidDigit"))
    ELSE AccUnsigned(IF Head(src) = "+" THEN Tail(src) ELSE src, radix, Zero(nlimbs))

RECURSIVE AccSigned(_, _, _, _)
AccSigned(digits, negative, bits, acc) ==
    IF digits = <<>> THEN Ok(acc)
    ELSE LET x == to_digit(Head(digits), 10)
             r == IF negative THEN acc * 10 - x ELSE acc * 10 + x
         IN  IF x = -1 THEN Err(ParseIntError("InvalidDigit"))
             ELSE IF r > 2^(bits - 1) - 1 THEN Err(ParseIntError("PosOverflow"))
             ELSE IF r < -(2^(bits - 1)) THEN Err(ParseIntError("NegOverflow"))
             ELSE AccSigned(Tail(digits), negative, bits, r)

\* i8/i16::from_str: an optional '+' or '-', then decimal digits; checked arithmetic
from_str_signed(src, bits) ==
    IF src = <<>> THEN Err(ParseIntError("Empty"))
    ELSE IF src = <<"+">> \/ src = <<"-">> THEN Err(ParseIntError("InvalidDigit"))
    ELSE IF Head(src) = "-" THEN AccSigned(Tail(src), TRUE, bits, 0)
    ELSE AccSigned(IF Head(src) = "+" THEN Tail(src) ELSE src, FALSE, bits, 0)

IsZero(v) == \A i \in 1..Len(v) : v[i] = 0

RECURSIVE Digits(_, _)
Digits(v, radix) ==
    IF IsZero(v) THEN <<>>
    ELSE LET qr == DivRem(v, radix, 0)
             n  == Len(v)
         IN  Digits(SubSeq(qr, 1, n), radix) \o <<from_digit(qr[n + 1])>>

\* "{}" of an unsigned integer
fmt_unsigned(v) == IF IsZero(v) THEN <<"0">> ELSE Digits(v, 10)

\* "{}" of a signed integer
fmt_signed(n) ==
    IF n = 0 THEN <<"0">>
    ELSE IF n < 0 THEN <<"-">> \o Digits(<<-n>>, 10)
    ELSE Digits(<<n>>, 10)

\* "{:016x}" of a u64
fmt_016x(v) ==
    LET d == Digits(v, 16)
    IN  [i \in 1..(16 - Len(d)) |-> "0"] \o d

---------------------------------------------------------------------------
(* process.rs: ProcessState *)

\* enum ProcessState
ProcessStates ==
    {"Running", "UninterruptibleSleep", "InterruptibleSleep", "Stopped", "Zombie",
     "Tracing", "Dead", "Idle"}

\* impl Display for ProcessState
ProcessState_fmt(state) ==
    CASE state = "Running"              -> <<"R">>
      [] state = "UninterruptibleSleep" -> <<"D">>
      [] state = "InterruptibleSleep"   -> <<"S">>
      [] state = "Stopped"              -> <<"T">>
      [] state = "Zombie"               -> <<"Z">>
      [] state = "Tracing"              -> <<"t">>
      [] state = "Dead"                 -> <<"X">>
      [] state = "Idle"                 -> <<"I">>

\* ProcessState::from_str that also takes the "x" of the enum's comment "X, x : Dead"
ProcessState_from_str_x(s) ==
    CASE s = <<"R">> -> Ok("Running")
      [] s = <<"D">> -> Ok("UninterruptibleSleep")
      [] s = <<"S">> -> Ok("InterruptibleSleep")
      [] s = <<"T">> -> Ok("Stopped")
      [] s = <<"Z">> -> Ok("Zombie")
      [] s = <<"t">> -> Ok("Tracing")
      [] s = <<"X">> \/ s = <<"x">> -> Ok("Dead")
      [] s = <<"I">> -> Ok("Idle")
      [] OTHER       -> Err(ParseError("Unknown process state", s))

\* impl FromStr for ProcessState
ProcessState_from_str(s) ==
    CASE s = <<"R">> -> Ok("Running")
      [] s = <<"D">> -> Ok("UninterruptibleSleep")
      [] s = <<"S">> -> Ok("InterruptibleSleep")
      [] s = <<"T">> -> Ok("Stopped")
      [] s = <<"Z">> -> Ok("Zombie")
      [] s = <<"t">> -> Ok("Tracing")
      [] s = <<"X">> -> Ok("Dead")
      [] s = <<"I">> -> Ok("Idle")
      [] OTHER       -> Err(ParseError("Unknown process state", s))

---------------------------------------------------------------------------
(* process.rs: Process *)

\* struct Process: the fields in declaration order, which is the order of the
\* tokens of the status line, each with its declared type
ProcessFields ==
    << <<"process_id", "u32">>, <<"name", "String">>, <<"state", "ProcessState">>,
       <<"parent_id", "u32">>, <<"parent_group_id", "u32">>, <<"session_id", "u32">>,
       <<"tty_nr", "u32">>, <<"tpgid", "u32">>, <<"flags", "u32">>,
       <<"minflt", "u64">>, <<"cminflt", "u64">>, <<"majflt", "u64">>,
       <<"cmajflt", "u64">>, <<"utime", "u64">>, <<"stime", "u64">>,
       <<"cutime", "u64">>, <<"cstime", "u64">>, <<"priority", "i8">>,
       <<"nice", "i8">>, <<"num_threads", "i8">>, <<"itrealvalue", "u64">>,
       <<"starttime", "u64">>, <<"vsize", "u64">>, <<"rss", "u64">>,
       <<"rsslim", "u64">>, <<"startcode", "u64">>, <<"endcode", "u64">>,
       <<"startstack", "u64">>, <<"kstkesp", "u64">>, <<"kstkeip", "u64">>,
       <<"signal", "u64">>, <<"blocked", "u64">>, <<"sigignore", "u64">>,
       <<"sigcatch", "u64">>, <<"wchan", "u64">>, <<"nswap", "u64">>,
       <<"cnswap", "u64">>, <<"exit_signal", "i16">>, <<"processor", "i16">>,
       <<"rt_priority", "u32">>, <<"policy", "u32">>,
       <<"delayacct_blkio_ticks", "u64">>, <<"guest_time", "u64">>,
       <<"cguest_time", "u64">>, <<"start_data", "u64">>, <<"end_data", "u64">>,
       <<"start_brk", "u64">>, <<"arg_start", "u64">>, <<"arg_end", "u64">>,
       <<"env_start", "u64">>, <<"env_end", "u64">>, <<"exit_code", "u32">> >>

NumFields == Len(ProcessFields)

FieldName(i) == ProcessFields[i][1]
FieldType(i) == ProcessFields[i][2]

\* Option<Vec<Process>>
None == [some |-> FALSE, items |-> <<>>]

\* Process::new with parent_id and parent_group_id, both of type Pid, exchanged
Process_new_swapped(vals) ==
    [name \in {FieldName(i) : i \in 1..NumFields} \cup {"threads", "segments"} |->
        IF name = "threads" THEN None
        ELSE IF name = "segments" THEN <<>>
        ELSE IF name = "parent_id" THEN vals[5]
        ELSE IF name = "parent_group_id" THEN vals[4]
        ELSE vals[CHOOSE i \in 1..NumFields : FieldName(i) = name]]

\* Process::new: the 52 values in parameter order; threads = None, segments = Vec::new()
Process_new(vals) ==
    [name \in {FieldName(i) : i \in 1..NumFields} \cup {"threads", "segments"} |->
        IF name = "threads" THEN None
        ELSE IF name = "segments" THEN <<>>
        ELSE vals[CHOOSE i \in 1..NumFields : FieldName(i) = name]]

\* str::parse::<T>() with the i8 fields parsed as i16
parse_wide(token, type) ==
    CASE type = "u32"          -> from_str_radix_unsigned(token, 10, 2)
      [] type = "u64"          -> from_str_radix_unsigned(token, 10, 4)
      [] type = "i8"           -> from_str_signed(token, 16)
      [] type = "i16"          -> from_str_signed(token, 16)
      [] type = "ProcessState" -> ProcessState_from_str(token)
      [] type = "String"       -> Ok(token)

\* str::parse::<T>() with T inferred from the field the value is passed to
parse(token, type) ==
    CASE type = "u32"          -> from_str_radix_unsigned(token, 10, 2)
      [] type = "u64"          -> from_str_radix_unsigned(token, 10, 4)
      [] type = "i8"           -> from_str_signed(token, 8)
      [] type = "i16"          -> from_str_signed(token, 16)
      [] type = "ProcessState" -> ProcessState_from_str(token)
      [] type = "String"       -> Ok(token)

\* the statements  let <field> = parts[i].parse()?;  from token i on (i is 1-based
\* here, parts[i - 1] in the source); vals are the fields parsed so far
RECURSIVE ParseFrom(_, _, _)
ParseFrom(parts, i, vals) ==
    IF i > NumFields THEN Ok(Process_new(vals))
    ELSE IF i > Len(parts) THEN Panic("index out of bounds")
    ELSE LET r == parse(parts[i], FieldType(i))
         IN  IF r.status # "Ok" THEN Err(r.error)
             ELSE ParseFrom(parts, i + 1, Append(vals, r.value))

\* impl FromStr for Process
Process_from_str(s) == ParseFrom(split_whitespace(s), 1, <<>>)

---------------------------------------------------------------------------
(* segment.rs: Device *)

\* Display for Device with minor before major
Device_fmt_swapped(d) == fmt_unsigned(d.minor) \o <<":">> \o fmt_unsigned(d.major)

\* impl Display for Device
Device_fmt(d) == fmt_unsigned(d.major) \o <<":">> \o fmt_unsigned(d.minor)

\* impl FromStr for Device
Device_from_str(s) ==
    LET parts == split(s, ":")
        major == from_str_radix_unsigned(parts[1], 10, 2)
    IN  IF major.status # "Ok" THEN Err(major.error)
        ELSE IF Len(parts) < 2 THEN Panic("index out of bounds")
        ELSE LET minor == from_str_radix_unsigned(parts[2], 10, 2)
             IN  IF minor.status # "Ok" THEN Err(minor.error)
                 ELSE Ok([major |-> major.value, minor |-> minor.value])

---------------------------------------------------------------------------
(* segment.rs: SegmentType *)

SegType(tag, sub, text) == [tag |-> tag, sub |-> sub, text |-> text]

AnonPrefix      == <<"[", "a", "n", "o", "n", ":">>
AnonShmemPrefix == <<"[", "a", "n", "o", "n", "_", "s", "h", "m", "e", "m", ":">>
StackTag        == <<"[", "s", "t", "a", "c", "k", "]">>
VdsoTag         == <<"[", "v", "d", "s", "o", "]">>
HeapTag         == <<"[", "h", "e", "a", "p", "]">>

\* str::trim_start_matches(p): p removed from the front as often as it matches
RECURSIVE trim_start_matches(_, _)
trim_start_matches(s, p) ==
    IF starts_with(s, p) THEN trim_start_matches(SubSeq(s, Len(p) + 1, Len(s)), p)
    ELSE s

\* str::trim_end_matches(p): p removed from the end as often as it matches
RECURSIVE trim_end_matches(_, _)
trim_end_matches(s, p) ==
    IF ends_with(s, p) THEN trim_end_matches(SubSeq(s, 1, Len(s) - Len(p)), p)
    ELSE s

\* impl Display for SegmentType (Data(Initialized) and Data(Uninitialized) are todo!())
SegmentType_fmt(t) ==
    CASE t.tag = "Stack"           -> Ok(StackTag)
      [] t.tag = "SharedLibrary"   -> Ok(VdsoTag)
      [] t.tag = "Data" /\ t.sub = "Heap" -> Ok(HeapTag)
      [] t.tag = "Data" /\ t.sub # "Heap" -> Panic("not yet implemented")
      [] t.tag = "Code"            -> Ok(t.text)
      [] t.tag = "Anonymous"       -> Ok(AnonPrefix \o t.text \o <<"]">>)
      [] t.tag = "SharedAnonymous" -> Ok(AnonShmemPrefix \o t.text \o <<"]">>)

\* SegmentType::from_str taking an unknown bracketed tag for a path
SegmentType_from_str_path(s) ==
    IF starts_with(s, AnonPrefix) /\ ends_with(s, <<"]">>)
    THEN Ok(SegType("Anonymous", "",
                    trim_end_matches(trim_start_matches(s, AnonPrefix), <<"]">>)))
    ELSE IF starts_with(s, AnonShmemPrefix) /\ ends_with(s, <<"]">>)
    THEN Ok(SegType("SharedAnonymous", "",
                    trim_end_matches(trim_start_matches(s, AnonShmemPrefix), <<"]">>)))
    ELSE CASE s = StackTag -> Ok(SegType("Stack", "", <<>>))
           [] s = VdsoTag  -> Ok(SegType("SharedLibrary", "", <<>>))
           [] s = HeapTag  -> Ok(SegType("Data", "Heap", <<>>))
           [] OTHER        -> Ok(SegType("Code", "", s))

\* impl FromStr for SegmentType
SegmentType_from_str(s) ==
    IF starts_with(s, AnonPrefix) /\ ends_with(s, <<"]">>)
    THEN Ok(SegType("Anonymous", "",
                    trim_end_matches(trim_start_matches(s, AnonPrefix), <<"]">>)))
    ELSE IF starts_with(s, AnonShmemPrefix) /\ ends_with(s, <<"]">>)
    THEN Ok(SegType("SharedAnonymous", "",
                    trim_end_matches(trim_start_matches(s, AnonShmemPrefix), <<"]">>)))
    ELSE IF starts_with(s, <<"[">>) /\ ends_with(s, <<"]">>)
    THEN CASE s = StackTag -> Ok(SegType("Stack", "", <<>>))
           [] s = VdsoTag  -> Ok(SegType("SharedLibrary", "", <<>>))
           [] s = HeapTag  -> Ok(SegType("Data", "Heap", <<>>))
           [] OTHER        -> Err(ParseError("Unknown segment type", s))
    ELSE Ok(SegType("Code", "", s))

---------------------------------------------------------------------------
(* segment.rs: SegmentPermission *)

SegmentPermissions == {"Read", "Write", "Execute", "NoPermission", "Private", "Shared"}

\* Display for SegmentPermission with Shared written as Private is
SegmentPermission_fmt_p(p) ==
    CASE p = "Read"         -> <<"r">>
      [] p = "Write"        -> <<"w">>
      [] p = "Execute"      -> <<"x">>
      [] p = "NoPermission" -> <<"-">>
      [] p = "Private"      -> <<"p">>
      [] p = "Shared"       -> <<"p">>

\* impl Display for SegmentPermission
SegmentPermission_fmt(p) ==
    CASE p = "Read"         -> <<"r">>
      [] p = "Write"        -> <<"w">>
      [] p = "Execute"      -> <<"x">>
      [] p = "NoPermission" -> <<"-">>
      [] p = "Private"      -> <<"p">>
      [] p = "Shared"       -> <<"s">>

\* impl FromStr for SegmentPermission
SegmentPermission_from_str(s) ==
    CASE s = <<"r">> -> Ok("Read")
      [] s = <<"w">> -> Ok("Write")
      [] s = <<"x">> -> Ok("Execute")
      [] s = <<"-">> -> Ok("NoPermission")
      [] s = <<"p">> -> Ok("Private")
      [] s = <<"s">> -> Ok("Shared")
      [] OTHER       -> Err(ParseError("Unknown segment permission", s))

---------------------------------------------------------------------------
(* segment.rs: Segment *)

\* &s[a..b] (0-based, b exclusive): the slice, or a panic when b is past the end
str_index(s, a, b) ==
    IF b > Len(s) THEN Panic("byte index out of range") ELSE Ok(SubSeq(s, a + 1, b))

\* the array of the four  SegmentPermission::from_str(&permissions[i..i+1])?  in
\* order, from slot i on (0-based); acc are the slots decoded so far
RECURSIVE PermissionsFrom(_, _, _)
PermissionsFrom(permissions, i, acc) ==
    IF i = 4 THEN Ok(acc)
    ELSE LET c == str_index(permissions, i, i + 1)
         IN  IF c.status # "Ok" THEN c
             ELSE LET p == SegmentPermission_from_str(c.value)
                  IN  IF p.status # "Ok" THEN Err(p.error)
                      ELSE PermissionsFrom(permissions, i + 1, Append(acc, p.value))

\* Segment::new with start and end, both u64, exchanged
Segment_new_swapped(start, end, permissions, offset, device, inode, pathname) ==
    [start |-> end, end |-> start, permissions |-> permissions, offset |-> offset,
     device |-> device, inode |-> inode, pathname |-> pathname]

\* Segment::new
Segment_new(start, end, permissions, offset, device, inode, pathname) ==
    [start |-> start, end |-> end, permissions |-> permissions, offset |-> offset,
     device |-> device, inode |-> inode, pathname |-> pathname]

\* impl FromStr for Segment, from the parsing of the six tokens on
SegmentOfTokens(address, permissions, offset, device, inode, pathname) ==
    LET addresses == split(address, "-")
        start == from_str_radix_unsigned(addresses[1], 16, 4)
    IN  IF start.status # "Ok" THEN Err(start.error)
        ELSE IF Len(addresses) < 2 THEN Panic("index out of bounds")
        ELSE
    LET end == from_str_radix_unsigned(addresses[2], 16, 4)
    IN  IF end.status # "Ok" THEN Err(end.error) ELSE
    LET perms == PermissionsFrom(permissions, 0, <<>>)
    IN  IF perms.status # "Ok" THEN perms ELSE
    LET off == from_str_radix_unsigned(offset, 16, 4)
    IN  IF off.status # "Ok" THEN Err(off.error) ELSE
    LET dev == Device_from_str(device)
    IN  IF dev.status # "Ok" THEN dev ELSE
    LET ino == from_str_radix_unsigned(inode, 10, 4)
    IN  IF ino.status # "Ok" THEN Err(ino.error) ELSE
    LET path == SegmentType_from_str(pathname)
    IN  IF path.status # "Ok" THEN Err(path.error) ELSE
        Ok(Segment_new(start.value, end.value, perms.value, off.value,
                       dev.value, ino.value, path.value))

\* the messages of the six  parts.next().ok_or(...)?
MissingToken == <<"No address", "No permissions", "No offset", "No device",
                  "No inode", "No pathname">>

\* Segment::from_str taking the pathname from the last token of the line
Segment_from_str_last(s) ==
    LET parts == split_whitespace(s)
    IN  IF Len(parts) < 6 THEN Err(ParseError(MissingToken[Len(parts) + 1], <<>>))
        ELSE SegmentOfTokens(parts[1], parts[2], parts[3], parts[4], parts[5],
                             parts[Len(parts)])

\* impl FromStr for Segment
Segment_from_str(s) ==
    LET parts == split_whitespace(s)
    IN  IF Len(parts) < 6 THEN Err(ParseError(MissingToken[Len(parts) + 1], <<>>))
        ELSE SegmentOfTokens(parts[1], parts[2], parts[3], parts[4], parts[5], parts[6])

\* the loop of get_from_pid over the lines the reader yields, each an io::Result
RECURSIVE CollectSegments(_, _)
CollectSegments(lines, segments) ==
    IF lines = <<>> THEN Ok(segments)
    ELSE LET line == Head(lines)
         IN  IF line.status # "Ok" THEN Err(line.error)
             ELSE LET segment == Segment_from_str(line.value)
                  IN  IF segment.status # "Ok" THEN segment
                      ELSE CollectSegments(Tail(lines), Append(segments, segment.value))

\* get_from_pid; proc is the maps file of the pid: whether File::open succeeds, and
\* the io::Result of each line read
get_from_pid(proc) ==
    IF ~proc.opens THEN Err(IoError("open"))
    ELSE CollectSegments(proc.lines, <<>>)

---------------------------------------------------------------------------
(* The callers' inputs *)

MaxTokens    == 53   \* tokens of a status line
MaxSegTokens == 7    \* tokens of a maps line
MaxPad       == 3    \* white space before the pathname of a maps line
MaxLines     == 3    \* lines of a maps file

RECURSIVE Join(_, _)
Join(tokens, sep) ==
    IF tokens = <<>> THEN <<>>
    ELSE IF Len(tokens) = 1 THEN tokens[1]
    ELSE tokens[1] \o sep \o Join(Tail(tokens), sep)

Spaces(n) == [i \in 1..n |-> " "]

\* numbers at and around the limits of i8, i16, u32 and u64, and other tokens
NumberPool ==
    { <<"0">>, <<"7">>, <<"-", "1">>, <<"1", "2", "7">>, <<"1", "2", "8">>,
      <<"-", "1", "2", "8">>, <<"-", "1", "2", "9">>,
      <<"3", "2", "7", "6", "7">>, <<"3", "2", "7", "6", "8">>,
      <<"-", "3", "2", "7", "6", "8">>,
      <<"-", "3", "2", "7", "6", "9">>,
      <<"4", "2", "9", "4", "9", "6", "7", "2", "9", "5">>,
      <<"4", "2", "9", "4", "9", "6", "7", "2", "9", "6">>,
      <<"1", "8", "4", "4", "6", "7", "4", "4", "0", "7", "3", "7", "0", "9", "5", "5",
        "1", "6", "1", "5">>,
      <<"1", "8", "4", "4", "6", "7", "4", "4", "0", "7", "3", "7", "0", "9", "5", "5",
        "1", "6", "1", "6">> }

TokenPool ==
    NumberPool \cup
    { <<"+", "5">>, <<"0", "0", "7">>, <<"-", "0">>, <<"1", "a">>, <<"-">>,
      <<"R">>, <<"Z">>, <<"x">>, <<"(", "s", "d", "-", "p", "a", "m", ")">> }

\* token i of the base status line: a name, a state, and else the position itself,
\* which is a number every field type holds and differs from field to field
BaseToken(i) ==
    IF i = 2 THEN <<"(", "s", "h", ")">>
    ELSE IF i = 3 THEN <<"S">>
    ELSE fmt_signed(i)

\* the first n tokens of the base status line, with token pos (if any) replaced by tok
StatusTokens(n, pos, tok) == [i \in 1..n |-> IF i = pos THEN tok ELSE BaseToken(i)]

Separators == { <<" ">>, <<"\t", " ">> }

\* the status lines tried: every length with every separator; the longest line with
\* one token replaced; the short lines with a bad token among the first three
StatusCases ==
    { [n |-> n, pos |-> 0, tok |-> <<>>, sep |-> sep] :
        n \in 0..MaxTokens, sep \in Separators }
    \cup
    { [n |-> MaxTokens, pos |-> pos, tok |-> tok, sep |-> <<" ">>] :
        pos \in 1..NumFields, tok \in TokenPool }
    \cup
    { [n |-> n, pos |-> pos, tok |-> tok, sep |-> <<" ">>] :
        n \in 1..(NumFields - 1), pos \in 1..3, tok \in {<<"x">>, <<"-", "1">>} }

HexZero  == [i \in 1..16 |-> "0"]
HexStack == <<"7", "f", "f", "e", "a", "4", "9", "0", "d", "0", "0", "0">>
HexEnd   == <<"7", "f", "f", "e", "a", "4", "a", "0", "f", "0", "0", "0">>
HexMax   == [i \in 1..16 |-> "f"]

AddressPool ==
    { HexStack \o <<"-">> \o HexEnd, HexZero \o <<"-">> \o HexZero,
      <<"5", "5", "D", "0">> \o <<"-">> \o HexMax,
      HexStack, <<"g", "0", "0", "0">>, <<"z", "z", "-", "1", "0">>,
      <<"1", "0", "-", "z", "z">>, <<"1">> \o HexZero \o <<"-", "1">>,
      <<"1", "0", "-">>, <<"1", "0", "-", "2", "0", "-", "3", "0">> }

PermissionLetters == {"r", "w", "x", "-", "p", "s"}

\* every 4-character string over the six permission letters
PermissionStrings == [1..4 -> PermissionLetters]

PermissionPool ==
    { <<"r", "w", "-", "p">>, <<"-", "-", "-", "-">>, <<"r", "w", "x", "p">>,
      <<"r", "-", "x", "s">>, <<"p", "p", "p", "p">>, <<"x", "w", "r", "s">>,
      <<"r", "w", "-">>, <<"r", "w", "x", "p", "p">>, <<"r", "w", "z", "p">>,
      <<"z", "w">>, <<"r">>, <<"r", "w", "x", "p", "z">> }

OffsetPool == { [i \in 1..8 |-> "0"], <<"0", "0", "0", "1", "f", "0", "0", "0">>, <<"z", "z">> }

DevicePool ==
    { <<"0", "0", ":", "0", "0">>, <<"8", ":", "2">>,
      <<"1", "0", "3", ":", "6", "5", "5", "3", "5">>, <<"5">>, <<"a", ":", "1">>,
      <<"1", ":">>, <<"4", "2", "9", "4", "9", "6", "7", "2", "9", "6", ":", "0">> }

InodePool == { <<"0">>, <<"1", "8", "3", "5", "4", "9", "9">>, <<"-", "1">> }

DevNull == <<"/", "d", "e", "v", "/", "n", "u", "l", "l">>
VvarTag == <<"[", "v", "v", "a", "r", "]">>

PathPool ==
    { DevNull, StackTag, HeapTag, VdsoTag, VvarTag, AnonPrefix \o <<"x", "]">> }

BaseAddress == HexStack \o <<"-">> \o HexEnd
BasePerms   == <<"r", "w", "-", "p">>
BaseOffset  == [i \in 1..8 |-> "0"]
BaseDevice  == <<"0", "0", ":", "0", "0">>
BaseInode   == <<"0">>

\* the six tokens of the maps lines tried, and a seventh that may follow them
SegmentCases ==
    { <<a, p, BaseOffset, BaseDevice, BaseInode, t>> :
        a \in AddressPool, p \in PermissionPool, t \in PathPool }
    \cup
    { <<BaseAddress, BasePerms, o, d, i, t>> :
        o \in OffsetPool, d \in DevicePool, i \in InodePool, t \in PathPool }
    \cup
    { <<BaseAddress, p, BaseOffset, BaseDevice, BaseInode, DevNull>> :
        p \in PermissionStrings }

Deleted == <<"(", "d", "e", "l", "e", "t", "e", "d", ")">>

\* the six tokens followed by as many more as n asks for
WithTrailing(tokens, n) == tokens \o [i \in 1..(n - 6) |-> Deleted]

\* the first n tokens of a maps line, with pad spaces before the pathname
MapsLine(tokens, n, pad) ==
    LET all == WithTrailing(tokens, n)
    IN  Join(SubSeq(all, 1, IF n < 5 THEN n ELSE 5), <<" ">>)
        \o (IF n >= 6 THEN Spaces(pad) \o Join(SubSeq(all, 6, n), <<" ">>) ELSE <<>>)

StackLine  == MapsLine(<<BaseAddress, BasePerms, BaseOffset, BaseDevice, BaseInode, StackTag>>, 6, 3)
NullLine   == MapsLine(<<HexZero \o <<"-">> \o HexZero, <<"-", "-", "-", "-">>, HexZero,
                         BaseDevice, BaseInode, DevNull>>, 6, 1)
NoPathLine == MapsLine(<<BaseAddress, BasePerms, BaseOffset, BaseDevice, BaseInode, StackTag>>, 5, 1)
VvarLine   == MapsLine(<<BaseAddress, <<"r", "-", "-", "p">>, BaseOffset, BaseDevice, BaseInode,
                         VvarTag>>, 6, 1)

\* what reading one line of a maps file may give: a line the kernel prints (a
\* mapping with a pathname the decoder classifies, one with no pathname, one with
\* the tag [vvar]), or a read error
LinePool ==
    { Ok(StackLine), Ok(NullLine), Ok(NoPathLine), Ok(VvarLine), Err(IoError("read")) }

\* the maps files tried: one that cannot be opened, and every file of up to
\* MaxLines lines
ProcPool ==
    { [opens |-> FALSE, lines |-> <<>>] } \cup
    UNION { { [opens |-> TRUE, lines |-> l] : l \in [1..n -> LinePool] } : n \in 0..MaxLines }

LimbPool == {0, 1, 9, 10, 65535}

\* u32 values, among them 0, 2^16 - 1, 2^16 and 2^32 - 1
U32Pool == { <<hi, lo>> : hi \in LimbPool, lo \in LimbPool }

DeviceTextPool ==
    { a \o <<":">> \o b : a \in NumberPool \cup {<<"0", "0">>}, b \in NumberPool \cup {<<"0", "0">>} }
    \cup DevicePool
    \cup { <<>>, <<":">>, <<":", "1">>, <<"1", ":", "2", ":", "3">>, <<"+", "1", ":", "+", "2">>,
           <<"1", "2">>, <<"1", " ", ":", "2">> }

StateTextPool ==
    { <<c>> : c \in {"R", "D", "S", "T", "Z", "t", "X", "I", "x", "r", "d", "s", "z", "i",
                     "W", "P", "K", "0", " "} }
    \cup { <<>>, <<"R", "R">>, <<"S", " ">>, <<"R", "u", "n", "n", "i", "n", "g">> }

PermissionTextPool ==
    { <<c>> : c \in PermissionLetters \cup {"R", "W", "X", "P", "S", "z", " "} }
    \cup { <<>>, <<"r", "w">>, <<"-", "-">> }

\* names of anonymous mappings: empty, plain, and ones that themselves begin with a
\* prefix or contain or end with ']'
AnonNamePool ==
    { <<>>, <<"x">>, <<"d", "a", "l", "v", "i", "k", "-", "h", "e", "a", "p">>,
      <<"x", "]">>, <<"]">>, <<"a", "]", "b">>, <<"[", "x", "]">>,
      AnonPrefix, AnonPrefix \o <<"x">>, AnonShmemPrefix \o <<"x">>, <<"a", ":", "b">> }

VsyscallTag == <<"[", "v", "s", "y", "s", "c", "a", "l", "l", "]">>

\* pathname tokens that are not built from a name
PathTextPool ==
    PathPool \cup
    { VsyscallTag, <<"[", "]">>, <<"[">>, <<"]">>, <<>>, <<"[", "s", "t", "a", "c", "k">>,
      <<"s", "t", "a", "c", "k", "]">>, <<"[", "S", "t", "a", "c", "k", "]">>,
      <<"[", "s", "t", "a", "c", "k", "]", "x">>, <<"[", "h", "e", "a", "p", "]", "]">>,
      AnonPrefix \o <<"x">>, <<"[", "a", "n", "o", "n", "]">>,
      <<"[", "a", "n", "o", "n", "_", "s", "h", "m", "e", "m", "]">>,
      <<"/", "u", "s", "r", "/", "l", "i", "b", "/", "l", "d", ".", "s", "o">>,
      <<"/", "a", "[", "1", "]">>, <<"a", "n", "o", "n", ":", "x", "]">> }

\* the pathname tokens tried, each with the prefix and name it was built from (if any)
SegmentTypeCases ==
    { [text |-> t, parts |-> <<>>] : t \in PathTextPool }
    \cup
    { [text |-> pre \o name \o <<"]">>, parts |-> <<pre, name>>] :
        pre \in {AnonPrefix, AnonShmemPrefix}, name \in AnonNamePool }

\* the SegmentType values tried
SegmentTypePool ==
    { SegType("Stack", "", <<>>), SegType("SharedLibrary", "", <<>>),
      SegType("Data", "Heap", <<>>), SegType("Data", "Initialized", <<>>),
      SegType("Data", "Uninitialized", <<>>), SegType("Code", "", DevNull) }
    \cup
    { SegType(tag, "", name) : tag \in {"Anonymous", "SharedAnonymous"}, name \in AnonNamePool }

---------------------------------------------------------------------------
(* The state machine: a caller invokes one operation on an input and gets *)
(* its result back.  No operation keeps state between calls.              *)

Init == op = "idle" /\ input = <<>> /\ made = <<>> /\ output = Ok(NoValue)

Call(name, arg, tokens, result) ==
    /\ op' = name
    /\ input' = arg
    /\ made' = tokens
    /\ output' = result

\* Process::from_str(line)
DecodeProcess ==
    /\ op = "idle"
    /\ \E c \in StatusCases :
          LET tokens == StatusTokens(c.n, c.pos, c.tok)
              line   == Join(tokens, c.sep)
          IN  Call("Process::from_str", line, tokens, Process_from_str(line))

\* ProcessState::from_str(s)
DecodeProcessState ==
    /\ op = "idle"
    /\ \E s \in StateTextPool : Call("ProcessState::from_str", s, <<>>, ProcessState_from_str(s))

\* state.to_string()
EncodeProcessState ==
    /\ op = "idle"
    /\ \E state \in ProcessStates :
        Call("ProcessState::fmt", state, <<>>, Ok(ProcessState_fmt(state)))

\* Segment::from_str(line)
DecodeSegment ==
    /\ op = "idle"
    /\ \E tokens \in SegmentCases, n \in 0..MaxSegTokens, pad \in 1..MaxPad :
        /\ (n = 6 /\ pad = 1) \/ (tokens[1] = BaseAddress /\ tokens[2] = BasePerms
                                  /\ tokens[3] = BaseOffset /\ tokens[4] = BaseDevice)
        /\ LET line == MapsLine(tokens, n, pad)
           IN  Call("Segment::from_str", line,
                    SubSeq(WithTrailing(tokens, n), 1, n), Segment_from_str(line))

\* SegmentType::from_str(s)
DecodeSegmentType ==
    /\ op = "idle"
    /\ \E c \in SegmentTypeCases :
          Call("SegmentType::from_str", c.text, c.parts, SegmentType_from_str(c.text))

\* segment_type.to_string()
EncodeSegmentType ==
    /\ op = "idle"
    /\ \E t \in SegmentTypePool : Call("SegmentType::fmt", t, <<>>, SegmentType_fmt(t))

\* SegmentPermission::from_str(s)
DecodePermission ==
    /\ op = "idle"
    /\ \E s \in PermissionTextPool :
        Call("SegmentPermission::from_str", s, <<>>, SegmentPermission_from_str(s))

\* permission.to_string()
EncodePermission ==
    /\ op = "idle"
    /\ \E p \in SegmentPermissions :
        Call("SegmentPermission::fmt", p, <<>>, Ok(SegmentPermission_fmt(p)))

\* Device::from_str(s)
DecodeDevice ==
    /\ op = "idle"
    /\ \E s \in DeviceTextPool : Call("Device::from_str", s, <<>>, Device_from_str(s))

\* device.to_string()
EncodeDevice ==
    /\ op = "idle"
    /\ \E major \in U32Pool, minor \in U32Pool :
        LET d == [major |-> major, minor |-> minor]
        IN  Call("Device::fmt", d, <<>>, Ok(Device_fmt(d)))

\* get_from_pid(pid), with proc the maps file of the pid
GetFromPid ==
    /\ op = "idle"
    /\ \E proc \in ProcPool : Call("get_from_pid", proc, <<>>, get_from_pid(proc))

\* the caller has the result and may call again
Return ==
    /\ op # "idle"
    /\ op' = "idle" /\ input' = <<>> /\ made' = <<>> /\ output' = Ok(NoValue)

Next ==
    \/ DecodeProcess
    \/ DecodeProcessState
    \/ EncodeProcessState
    \/ DecodeSegment
    \/ DecodeSegmentType
    \/ EncodeSegmentType
    \/ DecodePermission
    \/ EncodePermission
    \/ DecodeDevice
    \/ EncodeDevice
    \/ GetFromPid
    \/ Return

Spec == Init /\ [][Next]_vars

---------------------------------------------------------------------------
(* What the kernel prints, stated without the decoders *)

IsDecimal(t) == t # <<>> /\ \A i \in 1..Len(t) : \E d \in 1..10 : DecDigits[d] = t[i]

IsLowerHex(t) ==
    /\ t # <<>>
    /\ \A i \in 1..Len(t) : (\E d \in 1..10 : DecDigits[d] = t[i]) \/ (\E d \in 1..6 : HexLower[d] = t[i])

\* a decimal numeral without sign or leading zeros
Canonical(t) == IsDecimal(t) /\ (Len(t) = 1 \/ t[1] # "0")

DigitValue(c) == CHOOSE d \in 0..9 : DecDigits[d + 1] = c

\* a <= b for canonical numerals
NumeralLeq(a, b) ==
    \/ Len(a) < Len(b)
    \/ /\ Len(a) = Len(b)
       /\ \/ a = b
          \/ \E i \in 1..Len(a) :
                /\ DigitValue(a[i]) < DigitValue(b[i])
                /\ \A j \in 1..(i - 1) : a[j] = b[j]

\* t without its leading zeros
StripZeros(t) ==
    LET k == Find(t, {"0"}, FALSE)
    IN  IF k > Len(t) THEN <<"0">> ELSE SubSeq(t, k, Len(t))

\* t with zeros in front up to 16 characters
Pad16(t) == [i \in 1..(16 - Len(t)) |-> "0"] \o t

U32MaxText == <<"4", "2", "9", "4", "9", "6", "7", "2", "9", "5">>
U64MaxText == <<"1", "8", "4", "4", "6", "7", "4", "4", "0", "7", "3", "7", "0", "9", "5", "5",
                "1", "6", "1", "5">>

\* the numeral t, written as the kernel writes numbers, is a value of the signed
\* type with the given greatest value max and least value -(min)
SignedNumeral(t, max, min) ==
    \/ Canonical(t) /\ NumeralLeq(t, max)
    \/ /\ Len(t) >= 2 /\ t[1] = "-"
       /\ Canonical(Tail(t)) /\ Tail(t) # <<"0">> /\ NumeralLeq(Tail(t), min)

StateCodes == { <<c>> : c \in {"R", "D", "S", "T", "Z", "t", "X", "I"} }

\* token t follows the status-line grammar for a field of the given type
GrammarToken(t, type) ==
    CASE type = "u32"          -> Canonical(t) /\ NumeralLeq(t, U32MaxText)
      [] type = "u64"          -> Canonical(t) /\ NumeralLeq(t, U64MaxText)
      [] type = "i8"           -> SignedNumeral(t, <<"1", "2", "7">>, <<"1", "2", "8">>)
      [] type = "i16"          -> SignedNumeral(t, <<"3", "2", "7", "6", "7">>,
                                                <<"3", "2", "7", "6", "8">>)
      [] type = "ProcessState" -> t \in StateCodes
      [] type = "String"       -> t # <<>>

\* the value v of a field of the given type is the value token t denotes
FieldIsToken(v, t, type) ==
    CASE type = "u32"          -> Len(v) = 2 /\ fmt_unsigned(v) = t
      [] type = "u64"          -> Len(v) = 4 /\ fmt_unsigned(v) = t
      [] type = "i8"           -> fmt_signed(v) = t
      [] type = "i16"          -> fmt_signed(v) = t
      [] type = "ProcessState" -> v \in ProcessStates /\ ProcessState_fmt(v) = t
      [] type = "String"       -> v = t

\* t has exactly one c, and Before / After are the parts around it
OneSeparator(t, c) == Cardinality({k \in 1..Len(t) : t[k] = c}) = 1
Before(t, c) == SubSeq(t, 1, Find(t, {c}, TRUE) - 1)
After(t, c)  == SubSeq(t, Find(t, {c}, TRUE) + 1, Len(t))

GrammarAddress(t) ==
    /\ OneSeparator(t, "-")
    /\ IsLowerHex(Before(t, "-")) /\ Len(Before(t, "-")) <= 16
    /\ IsLowerHex(After(t, "-"))  /\ Len(After(t, "-")) <= 16

IsHex(t) == t # <<>> /\ \A i \in 1..Len(t) : to_digit(t[i], 16) # -1

NoSeparator(t, c) == \A k \in 1..Len(t) : t[k] # c

\* t is two halves around one '-', and a half is not a hex numeral
NonHexHalf(t) ==
    OneSeparator(t, "-") /\ (~IsHex(Before(t, "-")) \/ ~IsHex(After(t, "-")))

GrammarPermissions(t) == Len(t) = 4 /\ \A i \in 1..4 : t[i] \in PermissionLetters

GrammarDevice(t) ==
    /\ OneSeparator(t, ":")
    /\ IsDecimal(Before(t, ":")) /\ NumeralLeq(StripZeros(Before(t, ":")), U32MaxText)
    /\ IsDecimal(After(t, ":"))  /\ NumeralLeq(StripZeros(After(t, ":")), U32MaxText)

\* the first six tokens are a well-formed maps line whose pathname has a classification
GrammarMapsLine(tokens) ==
    /\ Len(tokens) >= 6
    /\ GrammarAddress(tokens[1])
    /\ GrammarPermissions(tokens[2])
    /\ IsLowerHex(tokens[3]) /\ Len(tokens[3]) <= 16
    /\ GrammarDevice(tokens[4])
    /\ IsDecimal(tokens[5]) /\ NumeralLeq(StripZeros(tokens[5]), U64MaxText)
    /\ SegmentType_from_str(tokens[6]).status = "Ok"

---------------------------------------------------------------------------
(* Claims *)

\* C1 (as claimed): Process::from_str on a status line with fewer than 52 tokens,
\* the empty line included, returns an error value to the caller and never panics.
\* (The code has no field-count error at all; the formula asks only for the part of
\* the claim that does not depend on the error's name: an Err, not a panic.)
C1_ShortLineReturnsError ==
    (op = "Process::from_str" /\ Len(made) < NumFields) => output.status = "Err"

\* C2: for every status line of at least 52 tokens that follow the grammar (token 2
\* a state code, every number written as the kernel writes it and within the range
\* of its field's declared type, the name any token), Process::from_str succeeds,
\* every one of the 52 fields has the value of the token at its position (so tokens
\* after position 51 change nothing), threads is None and segments is empty.
C2_ValidLineDecodes ==
    (/\ op = "Process::from_str"
     /\ Len(made) >= NumFields
     /\ \A i \in 1..NumFields : GrammarToken(made[i], FieldType(i)))
    =>
    /\ output.status = "Ok"
    /\ \A i \in 1..NumFields : FieldIsToken(output.value[FieldName(i)], made[i], FieldType(i))
    /\ output.value.threads = None
    /\ output.value.segments = <<>>

\* a line of more than 52 tokens with the greatest u32 as tpgid has been decoded
C2_Witness ==
    /\ op = "Process::from_str"
    /\ Len(made) > NumFields
    /\ \A i \in 1..NumFields : GrammarToken(made[i], FieldType(i))
    /\ made[8] = U32MaxText
    /\ output.status = "Ok"
    /\ output.value.tpgid = <<65535, 65535>>

\* C3: for every well-formed maps line, with any amount of white space before the
\* pathname, Segment::from_str succeeds and returns start and end as the hex values
\* of the two address halves, permissions as the four per-character decodings in
\* order, offset as the hex value, device as the decimal (major, minor) pair, inode
\* as the decimal value and pathname as the classification of the sixth token
\* ("/dev/null" gives Code("/dev/null"), "[stack]" gives Stack).
C3_WellFormedLineDecodes ==
    (op = "Segment::from_str" /\ GrammarMapsLine(made))
    =>
    /\ output.status = "Ok"
    /\ LET seg == output.value
       IN  /\ Len(seg.start) = 4 /\ fmt_016x(seg.start) = Pad16(Before(made[1], "-"))
           /\ Len(seg.end) = 4   /\ fmt_016x(seg.end) = Pad16(After(made[1], "-"))
           /\ Len(seg.permissions) = 4
           /\ \A i \in 1..4 : SegmentPermission_fmt(seg.permissions[i]) = <<made[2][i]>>
           /\ Len(seg.offset) = 4 /\ fmt_016x(seg.offset) = Pad16(made[3])
           /\ Len(seg.device.major) = 2
           /\ fmt_unsigned(seg.device.major) = StripZeros(Before(made[4], ":"))
           /\ Len(seg.device.minor) = 2
           /\ fmt_unsigned(seg.device.minor) = StripZeros(After(made[4], ":"))
           /\ Len(seg.inode) = 4 /\ fmt_unsigned(seg.inode) = StripZeros(made[5])
           /\ seg.pathname = SegmentType_from_str(made[6]).value
           /\ made[6] = DevNull => seg.pathname = SegType("Code", "", DevNull)
           /\ made[6] = StackTag => seg.pathname = SegType("Stack", "", <<>>)
           /\ made[2] = <<"r", "w", "-", "p">> =>
                 seg.permissions = <<"Read", "Write", "NoPermission", "Private">>

\* the stack line of the test, with three spaces before "[stack]", has been decoded
C3_Witness ==
    /\ op = "Segment::from_str"
    /\ GrammarMapsLine(made)
    /\ Len(made) = 6 /\ made[6] = StackTag
    /\ Len(input) = Len(Join(made, <<" ">>)) + 2
    /\ output.status = "Ok"
    /\ output.value.start = <<0, 32766, 42128, 53248>>
    /\ output.value.pathname.tag = "Stack"

\* C4 (as claimed): get_from_pid returns an error when the maps file cannot be
\* opened or a line cannot be read, and whenever the file can be opened and read it
\* returns Ok with exactly one Segment per line, in file order.
C4_OneSegmentPerLine ==
    op = "get_from_pid" =>
        LET readable == input.opens /\ \A i \in 1..Len(input.lines) : input.lines[i].status = "Ok"
        IN  /\ ~readable => output.status = "Err"
            /\ readable =>
                 /\ output.status = "Ok"
                 /\ Len(output.value) = Len(input.lines)
                 /\ \A i \in 1..Len(input.lines) :
                       Ok(output.value[i]) = Segment_from_str(input.lines[i].value)

C6_PermissionTokenChecked ==
    (op = "Segment::from_str" /\ Len(made) >= 6) =>
        /\ output.status = "Ok" => GrammarPermissions(made[2])
        /\ ~GrammarPermissions(made[2]) => output.status = "Err"

\* C7: for every 4-character string over r w x - p s, in any combination and any
\* slot, decoding each character and encoding the four results gives the string
\* back; SegmentPermission decode and encode are inverse bijections between the
\* six characters and the six variants.
C7_PermissionRoundTrip ==
    /\ (op = "Segment::from_str" /\ GrammarMapsLine(made)) =>
          /\ output.status = "Ok"
          /\ Len(output.value.permissions) = 4
          /\ SegmentPermission_fmt(output.value.permissions[1])
               \o SegmentPermission_fmt(output.value.permissions[2])
               \o SegmentPermission_fmt(output.value.permissions[3])
               \o SegmentPermission_fmt(output.value.permissions[4]) = made[2]
    /\ (op = "SegmentPermission::from_str" /\ Len(input) = 1 /\ input[1] \in PermissionLetters) =>
          /\ output.status = "Ok"
          /\ output.value \in SegmentPermissions
          /\ SegmentPermission_fmt(output.value) = input
    /\ op = "SegmentPermission::fmt" =>
          /\ Len(output.value) = 1 /\ output.value[1] \in PermissionLetters
          /\ SegmentPermission_from_str(output.value) = Ok(input)

\* a line whose permission token has its letters in the "wrong" slots has been decoded
C7_Witness ==
    /\ op = "Segment::from_str"
    /\ GrammarMapsLine(made)
    /\ made[2] = <<"s", "p", "x", "w">>
    /\ output.status = "Ok"
    /\ output.value.permissions = <<"Shared", "Private", "Execute", "Write">>

\* C8: Device encode/decode is a strict round trip: for every Device d with major
\* and minor in 0..2^32-1, Device::from_str(d.to_string()) succeeds and equals d,
\* and the text is "{major}:{minor}" in base 10.
C8_DeviceRoundTrip ==
    op = "Device::fmt" =>
        /\ output.status = "Ok"
        /\ GrammarDevice(output.value)
        /\ Canonical(Before(output.value, ":")) /\ Canonical(After(output.value, ":"))
        /\ Device_from_str(output.value) = Ok(input)
        /\ input = [major |-> <<0, 10>>, minor |-> <<0, 9>>] =>
              output.value = <<"1", "0", ":", "9">>
        /\ input.major = <<65535, 65535>> => Before(output.value, ":") = U32MaxText
        /\ input.minor = <<1, 0>> => After(output.value, ":") = <<"6", "5", "5", "3", "6">>

\* the device (2^32 - 1, 2^16) has been encoded
C8_Witness ==
    /\ op = "Device::fmt"
    /\ input = [major |-> <<65535, 65535>>, minor |-> <<1, 0>>]
    /\ output.value = U32MaxText \o <<":", "6", "5", "5", "3", "6">>

\* C9 (as claimed): no decode path panics on a malformed sub-field: Device::from_str
\* returns a Device or an integer-format error for every text, a text without ':'
\* included, and Segment::from_str on a line whose address token has no '-' or has a
\* half that is not hex returns an error.
C9_MalformedSubFieldIsError ==
    /\ op = "Device::from_str" =>
          \/ output.status = "Ok"
          \/ output.status = "Err" /\ output.error.type = "ParseIntError"
    /\ (op = "Segment::from_str" /\ Len(made) >= 6
        /\ (NoSeparator(made[1], "-") \/ NonHexHalf(made[1]))) =>
          output.status = "Err"

\* C10 (as claimed): every Segment that Segment::from_str returns has Read or
\* NoPermission in slot 0, Write or NoPermission in slot 1, Execute or NoPermission
\* in slot 2, and Private, Shared or NoPermission in slot 3.
C10_PermissionSlots ==
    (op = "Segment::from_str" /\ output.status = "Ok") =>
        /\ output.value.permissions[1] \in {"Read", "NoPermission"}
        /\ output.value.permissions[2] \in {"Write", "NoPermission"}
        /\ output.value.permissions[3] \in {"Execute", "NoPermission"}
        /\ output.value.permissions[4] \in {"Private", "Shared", "NoPermission"}

\* the variant a prefix stands for
VariantOf(prefix) == IF prefix = AnonPrefix THEN "Anonymous" ELSE "SharedAnonymous"

\* C11 (as claimed): SegmentType::from_str on "[anon:<name>]" returns
\* Anonymous(<name>) and on "[anon_shmem:<name>]" returns SharedAnonymous(<name>),
\* with <name> exactly the characters between the first occurrence of the prefix and
\* the final ']', for every <name> (names that begin with "[anon:" or end with ']'
\* and the empty name included); so decoding the encoding of an Anonymous or
\* SharedAnonymous value gives the value back.
C11_AnonNameVerbatim ==
    /\ (op = "SegmentType::from_str" /\ made # <<>>) =>
          output = Ok(SegType(VariantOf(made[1]), "", made[2]))
    /\ (op = "SegmentType::fmt" /\ input.tag \in {"Anonymous", "SharedAnonymous"}) =>
          /\ output.status = "Ok"
          /\ SegmentType_from_str(output.value) = Ok(input)

\* a token of one of the two anonymous forms
AnonymousForm(t) ==
    /\ t # <<>> /\ t[Len(t)] = "]"
    /\ \/ Len(t) >= Len(AnonPrefix) /\ SubSeq(t, 1, Len(AnonPrefix)) = AnonPrefix
       \/ Len(t) >= Len(AnonShmemPrefix) /\ SubSeq(t, 1, Len(AnonShmemPrefix)) = AnonShmemPrefix

\* a token that starts with '[' and ends with ']'
Bracketed(t) == t # <<>> /\ t[1] = "[" /\ t[Len(t)] = "]"

\* C12: SegmentType::from_str partitions every token that is not of an anonymous
\* form: "[stack]" gives Stack, "[vdso]" gives SharedLibrary, "[heap]" gives
\* Data(Heap); any other token that starts with '[' and ends with ']' fails with the
\* unknown-segment-type error naming the token; every remaining token gives
\* Code(token) verbatim.  Decoding never produces Data(Initialized) or
\* Data(Uninitialized), neither alone nor as the pathname of a Segment.
C12_NonAnonymousPartition ==
    /\ (op = "SegmentType::from_str" /\ ~AnonymousForm(input)) =>
          output = IF input = StackTag THEN Ok(SegType("Stack", "", <<>>))
                   ELSE IF input = VdsoTag THEN Ok(SegType("SharedLibrary", "", <<>>))
                   ELSE IF input = HeapTag THEN Ok(SegType("Data", "Heap", <<>>))
                   ELSE IF Bracketed(input)
                        THEN Err(ParseError("Unknown segment type", input))
                   ELSE Ok(SegType("Code", "", input))
    /\ (op = "SegmentType::from_str" /\ output.status = "Ok" /\ output.value.tag = "Data") =>
          output.value.sub = "Heap"
    /\ (op = "Segment::from_str" /\ output.status = "Ok"
          /\ output.value.pathname.tag = "Data") =>
          output.value.pathname.sub = "Heap"

\* an unknown bracketed tag has been rejected
C12_Witness ==
    /\ op = "SegmentType::from_str"
    /\ input = VsyscallTag
    /\ output = Err(ParseError("Unknown segment type", VsyscallTag))

\* C13: Segment::from_str takes the pathname from exactly the sixth white-space
\* separated token: the pathname of the Segment is the classification of that token,
\* tokens after the sixth change nothing of the result, and a line of only five
\* tokens gives the error "No pathname".
C13_PathnameIsSixthToken ==
    op = "Segment::from_str" =>
        /\ Len(made) = 5 => output = Err(ParseError("No pathname", <<>>))
        /\ (Len(made) >= 6 /\ output.status = "Ok") =>
              Ok(output.value.pathname) = SegmentType_from_str(made[6])
        /\ Len(made) > 6 =>
              output = Segment_from_str(Join(SubSeq(made, 1, 6), <<" ">>))

\* a line with a seventh token has been decoded, its pathname from the sixth
C13_Witness ==
    /\ op = "Segment::from_str"
    /\ Len(made) = 7 /\ made[6] = DevNull /\ made[7] = Deleted
    /\ output.status = "Ok"
    /\ output.value.pathname = SegType("Code", "", DevNull)

\* the range the claim gives for each field, as the name of the integer type that
\* has it: -128..127 is i8, -32768..32767 is i16, 0..2^32-1 is u32, 0..2^64-1 is u64
RangeOf(name) ==
    IF name \in {"priority", "nice", "num_threads"} THEN "i8"
    ELSE IF name \in {"exit_signal", "processor"} THEN "i16"
    ELSE IF name \in {"process_id", "parent_id", "parent_group_id", "session_id",
                      "tty_nr", "tpgid", "flags", "rt_priority", "policy", "exit_code"}
         THEN "u32"
    ELSE IF name = "name" THEN "String"
    ELSE IF name = "state" THEN "ProcessState"
    ELSE "u64"

\* the positions of the numeric fields
NumericFields == { i \in 1..NumFields : FieldName(i) \notin {"name", "state"} }

\* a decimal numeral with an optional sign
SignedDecimal(t) ==
    IF t # <<>> /\ t[1] \in {"+", "-"} THEN IsDecimal(Tail(t)) ELSE IsDecimal(t)

\* the numeral t as the kernel would write its value: no '+', no leading zeros, no
\* sign on zero
Normal(t) ==
    IF t[1] = "+" THEN StripZeros(Tail(t))
    ELSE IF t[1] = "-"
         THEN IF StripZeros(Tail(t)) = <<"0">> THEN <<"0">>
              ELSE <<"-">> \o StripZeros(Tail(t))
    ELSE StripZeros(t)

\* the numeral t denotes a value outside the range
OutOfRange(t, range) == SignedDecimal(t) /\ ~GrammarToken(Normal(t), range)

\* C14: Process::from_str never wraps or truncates a numeric token.  On a line of at
\* least 52 tokens whose first token off the grammar is a numeral outside the range
\* of its field (-128..127 for priority, nice and num_threads; -32768..32767 for
\* exit_signal and processor; 0..2^32-1 for the pid fields, tty_nr, tpgid, flags,
\* rt_priority, policy and exit_code; 0..2^64-1 for the other numeric fields) the
\* result is an integer-format error; and whenever the result is a Process, every
\* numeric field holds exactly the value its token denotes.
C14_NoWrapNoTruncation ==
    (op = "Process::from_str" /\ Len(made) >= NumFields) =>
        /\ \A i \in NumericFields :
              ( /\ OutOfRange(made[i], RangeOf(FieldName(i)))
                /\ \A j \in 1..(i - 1) : GrammarToken(made[j], RangeOf(FieldName(j))) )
              => /\ output.status = "Err"
                 /\ output.error.type = "ParseIntError"
                 /\ output.error.what \in {"PosOverflow", "NegOverflow", "InvalidDigit"}
        /\ output.status = "Ok" =>
              \A i \in NumericFields :
                 /\ SignedDecimal(made[i])
                 /\ FieldIsToken(output.value[FieldName(i)], Normal(made[i]),
                                 RangeOf(FieldName(i)))

\* a status line reporting tpgid = -1 has been rejected with an integer-format error
C14_Witness ==
    /\ op = "Process::from_str"
    /\ Len(made) >= NumFields
    /\ made[8] = <<"-", "1">> /\ FieldName(8) = "tpgid"
    /\ \A j \in 1..7 : GrammarToken(made[j], RangeOf(FieldName(j)))
    /\ output = Err(ParseIntError("InvalidDigit"))

=============================================================================
